---- MODULE Spec2Model ----
(***************************************************************************)
(* Model of the generation job pipeline of src/gui.py: the window          *)
(* (VoiceCloneGUI) running in the interactive context, the worker          *)
(* GenerationThread, the queued finished/error signals between them, the   *)
(* modal message boxes, the voice catalogue and the part of the file       *)
(* system the two touch.                                                   *)
(*                                                                         *)
(* Every slot of the window runs to completion in the interactive context  *)
(* (Qt dispatches one event at a time), so a slot is one action.  A modal  *)
(* QMessageBox is the last statement of every slot that opens one; it      *)
(* blocks user input to the window but spins a nested event loop, so       *)
(* queued signals of the worker are still dispatched while it is open.     *)
(* Each statement group of GenerationThread.run is one action of the       *)
(* worker, interleaved with the interactive context.                       *)
(***************************************************************************)
EXTENDS Integers, Sequences, FiniteSets, TLC

VARIABLES
    model,              \* self.model is set (Zonos.from_pretrained succeeded)
    config,             \* self.config, the dict shared with every thread
    current_voice_file, \* self.current_voice_file, NoFile for None
    available_voices,   \* self.available_voices, name -> file (NoFile for None)
    voice_combo,        \* currentText of self.voice_combo
    text_input,         \* content of self.text_input, a sequence of characters
    enabled,            \* enabled flag of the five widgets of set_ui_enabled
    last_output,        \* self.last_output, NoPath for None
    threads,            \* every GenerationThread created, in creation order;
                        \* the last one is self.thread
    events,             \* queued finished/error signals not yet dispatched
    dialogs,            \* stack of open modal message boxes, innermost last
    slot_exceptions,    \* slots that raised an exception out of the handler
    alive,              \* the process runs (it aborts when a slot raises)
    fsFiles,            \* the media files that exist on the file system
    outputs,            \* every torchaudio.save done: file, job and clock
    now,                \* wall clock, in ticks of 1/TicksPerSecond second
    \* one call of MediaHandler.load_audio, statement by statement
    la_pc,              \* the statement the call is at
    la_src,             \* the file passed and what the environment does with it
    la_wav,             \* the local wav, NoWav while unbound
    la_return,          \* the value returned, NoWav while none
    la_exc,             \* the exception that left the call, NoExc while none
    la_tmpfile,         \* tmpfile.name, "" outside the with block
    la_tmp_dir,         \* names that exist in the temporary directory
    la_trace,           \* the decoder and transcoder calls made, in order
    \* one or two calls of scan_preset_voices, statement by statement
    sc_pc,              \* the statement the call is at
    sc_fs,              \* the files on the file system
    sc_dirs,            \* the directories that exist
    sc_ext,             \* index of the pattern the outer loop is at
    sc_found,           \* files of the current glob not yet visited
    sc_voices,          \* the dict voices being built
    sc_results          \* the dicts returned so far, in call order

guiVars == <<model, config, current_voice_file,
             available_voices, voice_combo, text_input, enabled, last_output,
             threads, events, dialogs, slot_exceptions, alive, fsFiles, outputs, now>>

loadVars == <<la_pc, la_src, la_wav, la_return, la_exc, la_tmpfile, la_tmp_dir,
              la_trace>>

scanVars == <<sc_pc, sc_fs, sc_dirs, sc_ext, sc_found, sc_voices, sc_results>>

vars == <<guiVars, loadVars, scanVars>>

(***************************************************************************)
(* Bounds of the model.                                                    *)
(***************************************************************************)
MaxJobs == 2
MaxClock == 2

(***************************************************************************)
(* Program constants and the values the inputs are drawn from.             *)
(***************************************************************************)
TimeoutSeconds == 30
TicksPerSecond == 2

Home == <<"home", "u">>
DefaultOutputDir == <<"home", "u", ".zonos_output">>
TmpOutputDir == <<"tmp", "out">>
ProcOutputDir == <<"proc", "out">>
OutputDirs == {DefaultOutputDir, TmpOutputDir, ProcOutputDir}

DefaultPresetsDir == <<"home", "u", ".zonos_presets">>
PresetDirs == {DefaultPresetsDir}

NoFile == [dir |-> <<>>, stem |-> "", ext |-> ""]
AliceWav == [dir |-> DefaultPresetsDir, stem |-> "alice", ext |-> "wav"]
ClipMp3 == [dir |-> <<"home", "u", "media">>, stem |-> "clip", ext |-> "mp3"]
AllFiles == {AliceWav, ClipMp3}

NoPath == [dir |-> <<>>, stamp |-> -1]

Whitespace == {" ", "\n"}
Texts == {<<>>, <<" ", "\n">>, <<" ", "a", "b", "\n">>}

Extensions == <<"wav", "mp3", "ogg", "flac", "mp4", "mov", "mkv", "webm">>

(***************************************************************************)
(* Pure helpers.                                                           *)
(***************************************************************************)
\* str.strip(): drop leading, then trailing whitespace
RECURSIVE LStrip(_)
LStrip(s) ==
    IF s # <<>> /\ Head(s) \in Whitespace THEN LStrip(Tail(s)) ELSE s

RECURSIVE RStrip(_)
RStrip(s) ==
    IF s # <<>> /\ s[Len(s)] \in Whitespace
    THEN RStrip(SubSeq(s, 1, Len(s) - 1))
    ELSE s

\* variant: the text taken as typed, not stripped
StripIdentity(s) == s

Strip(s) == RStrip(LStrip(s))

IsPrefix(p, q) == Len(p) <= Len(q) /\ SubSeq(q, 1, Len(p)) = p

\* Path.relative_to(base) raises ValueError unless base is a prefix of the path
RelativeToRaises(path, base) == ~IsPrefix(base, path)

\* Path.mkdir(parents=True, exist_ok=True) succeeds unless the file system
\* refuses the directory (here: anything below the read-only /proc)
Creatable(d) == d[1] # "proc"

\* variant: a timestamp format that leaves the seconds out
TimestampCoarse(t) == 0

\* strftime("%Y%m%d_%H%M%S"): the clock cut to whole seconds
Timestamp(t) == t \div TicksPerSecond

OutputFile(dir, t) == [dir |-> dir, stamp |-> Timestamp(t)]

\* variant: rglob, which descends into the sub-directories
GlobRecursive(fs, dir, ext) ==
    {f \in fs : IsPrefix(dir, f.dir) /\ f.ext = ext}

\* variant: the pattern "*", whatever the suffix
GlobAll(fs, dir, ext) == {f \in fs : f.dir = dir}

\* presets_path.glob("*.<ext>"): the files directly inside dir with that suffix
Glob(fs, dir, ext) == {f \in fs : f.dir = dir /\ f.ext = ext}

RECURSIVE ScanFrom(_, _, _, _)
ScanFrom(fs, dir, i, voices) ==
    IF i > Len(Extensions) THEN voices
    ELSE LET found == Glob(fs, dir, Extensions[i])
             names == {f.stem : f \in found}
             next == [n \in (DOMAIN voices) \cup names |->
                          IF n \in names
                          THEN CHOOSE f \in found : f.stem = n
                          ELSE voices[n]]
         IN  ScanFrom(fs, dir, i + 1, next)

scan_preset_voices(fs, presets_dir) ==
    ScanFrom(fs, presets_dir, 1, [n \in {"Custom Voice"} |-> NoFile])

Range(f) == {f[x] : x \in DOMAIN f}

(***************************************************************************)
(* The widgets and the voice selection.  A gui record carries the fields   *)
(* the voice handlers read and write.                                      *)
(***************************************************************************)
Gui == [current_voice_file |-> current_voice_file,
        available_voices |-> available_voices,
        voice_combo |-> voice_combo,
        enabled |-> enabled]

\* variant: generate_btn left out of the widgets switched
set_ui_enabled_keeps_generate(en, value) ==
    [en EXCEPT !.voice_combo = value, !.browse_voice_btn = value,
               !.text_input = value, !.play_btn = value]

set_ui_enabled(en, value) ==
    [en EXCEPT !.voice_combo = value, !.browse_voice_btn = value,
               !.text_input = value, !.generate_btn = value,
               !.play_btn = value]

handle_voice_change(g, fs, voice_name) ==
    IF voice_name = "Custom Voice"
    THEN [g EXCEPT !.current_voice_file = NoFile, !.enabled.play_btn = FALSE]
    ELSE LET voice_file == IF voice_name \in DOMAIN g.available_voices
                           THEN g.available_voices[voice_name]
                           ELSE NoFile
         IN  IF voice_file # NoFile /\ voice_file \in fs
             THEN [g EXCEPT !.current_voice_file = voice_file,
                            !.enabled.play_btn = TRUE]
             ELSE [g EXCEPT !.current_voice_file = NoFile,
                            !.enabled.play_btn = FALSE]

\* voice_combo.clear() and addItems() emit currentTextChanged, to which
\* handle_voice_change is connected: "" on clear (the combo held items), then
\* the first key, "Custom Voice", when the items are added to the empty combo
refresh_voice_list(g, fs, presets_dir) ==
    LET cleared == handle_voice_change([g EXCEPT !.voice_combo = ""], fs, "")
        scanned == [cleared EXCEPT
                       !.available_voices = scan_preset_voices(fs, presets_dir),
                       !.voice_combo = "Custom Voice"]
    IN  handle_voice_change(scanned, fs, "Custom Voice")

SetGui(g) ==
    /\ current_voice_file' = g.current_voice_file
    /\ available_voices' = g.available_voices
    /\ voice_combo' = g.voice_combo
    /\ enabled' = g.enabled

UserIdle == alive /\ dialogs = <<>>

(***************************************************************************)
(* The values of a call of load_audio or scan_preset_voices that is not    *)
(* being followed statement by statement.                                  *)
(***************************************************************************)
NoWav == [channels |-> 0, rate |-> 0]

NoExc == [type |-> "", stderr |-> <<>>]

NoSource == [primary |-> "", rate |-> 0, channels |-> 0, resample |-> "",
             tmpfile |-> "", ffmpeg |-> "", reload |-> ""]

LoadIdle ==
    /\ la_pc = "idle"
    /\ la_src = NoSource
    /\ la_wav = NoWav
    /\ la_return = NoWav
    /\ la_exc = NoExc
    /\ la_tmpfile = ""
    /\ la_tmp_dir = {}
    /\ la_trace = <<>>

ScanIdle ==
    /\ sc_pc = "idle"
    /\ sc_fs = {}
    /\ sc_dirs = {}
    /\ sc_ext = 0
    /\ sc_found = {}
    /\ sc_voices = <<>>
    /\ sc_results = <<>>

(***************************************************************************)
(* Init: the state when VoiceCloneGUI.__init__ has returned.               *)
(***************************************************************************)
GuiInit ==
    /\ model \in BOOLEAN
    /\ config \in [output_dir : OutputDirs, presets_dir : PresetDirs,
                   timeout_seconds : {TimeoutSeconds}]
    /\ fsFiles = AllFiles
    /\ current_voice_file = NoFile
    /\ available_voices = scan_preset_voices(fsFiles, config.presets_dir)
    /\ voice_combo = "Custom Voice"
    /\ text_input = <<>>
    /\ enabled = [voice_combo |-> TRUE, browse_voice_btn |-> TRUE,
                  text_input |-> TRUE, generate_btn |-> TRUE, play_btn |-> TRUE]
    /\ last_output = NoPath
    /\ threads = <<>>
    /\ events = <<>>
    /\ dialogs = <<>>
    /\ slot_exceptions = {}
    /\ alive = TRUE
    /\ outputs = {}
    /\ now = 0

Init == GuiInit /\ LoadIdle /\ ScanIdle

(***************************************************************************)
(* User input to the window.  The five widgets of set_ui_enabled take      *)
(* input only while enabled; the folder line edits and save_btn are never  *)
(* disabled.  No input reaches the window while a modal box is open.       *)
(***************************************************************************)
EditText(t) ==
    /\ UserIdle
    /\ enabled.text_input
    /\ t # text_input
    /\ text_input' = t
    /\ UNCHANGED <<model, config,
                   current_voice_file, available_voices, voice_combo, enabled,
                   last_output, threads, events, dialogs, slot_exceptions,
                   alive, fsFiles, outputs, now>>
    /\ UNCHANGED <<loadVars, scanVars>>

\* presets_text and output_text: the texts of the two folder line edits, which
\* the user types or fills through browse_directory
save_folder_settings(presets_text, output_text) ==
    /\ UserIdle
    /\ config' = [config EXCEPT !.presets_dir = presets_text,
                                !.output_dir = output_text]
    /\ SetGui(refresh_voice_list(Gui, fsFiles, presets_text))
    /\ dialogs' = Append(dialogs, "saved")
    /\ UNCHANGED <<model, text_input,
                   last_output, threads, events, slot_exceptions, alive, fsFiles, outputs, now>>
    /\ UNCHANGED <<loadVars, scanVars>>

\* the user picks another entry of voice_combo
SelectVoice(voice_name) ==
    /\ UserIdle
    /\ enabled.voice_combo
    /\ voice_name \in DOMAIN available_voices
    /\ voice_name # voice_combo
    /\ SetGui(handle_voice_change([Gui EXCEPT !.voice_combo = voice_name],
                                  fsFiles, voice_name))
    /\ UNCHANGED <<model, config,
                   text_input, last_output, threads, events, dialogs,
                   slot_exceptions, alive, fsFiles, outputs, now>>
    /\ UNCHANGED <<loadVars, scanVars>>

\* browse_voice_btn: the file dialog returns an existing file
select_voice_file(file_path) ==
    /\ UserIdle
    /\ enabled.browse_voice_btn
    /\ file_path \in fsFiles
    /\ LET chosen == [Gui EXCEPT !.current_voice_file = file_path]
           listed == IF file_path \notin Range(available_voices)
                     THEN refresh_voice_list(chosen, fsFiles, config.presets_dir)
                     ELSE chosen
       IN  SetGui([listed EXCEPT !.enabled.play_btn = TRUE])
    /\ UNCHANGED <<model, config,
                   text_input, last_output, threads, events, dialogs,
                   slot_exceptions, alive, fsFiles, outputs, now>>
    /\ UNCHANGED <<loadVars, scanVars>>

\* the user closes the innermost message box
DismissDialog ==
    /\ alive
    /\ dialogs # <<>>
    /\ dialogs' = SubSeq(dialogs, 1, Len(dialogs) - 1)
    /\ UNCHANGED <<model, config,
                   current_voice_file, available_voices, voice_combo,
                   text_input, enabled, last_output, threads, events,
                   slot_exceptions, alive, fsFiles, outputs, now>>
    /\ UNCHANGED <<loadVars, scanVars>>

(***************************************************************************)
(* The environment: a listed voice file is removed (a file the catalogue   *)
(* does not list is seen only by the file dialog, where its absence is the *)
(* user not choosing it), the clock advances.  The                         *)
(* clock is read in one place only, by run before it saves, so the model   *)
(* lets the time that has passed since the last reading pass there.        *)
(***************************************************************************)
RemoveFile(f) ==
    /\ alive
    /\ f \in fsFiles
    /\ f \in Range(available_voices)
    /\ fsFiles' = fsFiles \ {f}
    /\ UNCHANGED <<model, config,
                   current_voice_file, available_voices, voice_combo,
                   text_input, enabled, last_output, threads, events, dialogs,
                   slot_exceptions, alive, outputs, now>>
    /\ UNCHANGED <<loadVars, scanVars>>

Tick ==
    /\ alive
    /\ now < MaxClock
    /\ \E j \in 1..Len(threads) : threads[j].pc = "save"
    /\ now' = now + 1
    /\ UNCHANGED <<model, config,
                   current_voice_file, available_voices, voice_combo,
                   text_input, enabled, last_output, threads, events, dialogs,
                   slot_exceptions, alive, fsFiles, outputs>>
    /\ UNCHANGED <<loadVars, scanVars>>

(***************************************************************************)
(* generate_speech, reached only through generate_btn.clicked.  A click on *)
(* the disabled button is dropped by Qt: that is the only busy check.      *)
(***************************************************************************)
\* an exception leaves a slot: no sys.excepthook is installed, so PyQt5 (from
\* 5.5 on, which every release installable as a wheel is) calls qFatal() and
\* the process aborts
SlotRaises(slot) ==
    /\ slot_exceptions' = slot_exceptions \cup {slot}
    /\ alive' = FALSE

NewThread(audio_path, text, output_dir) ==
    [audio_path |-> audio_path, text |-> text, output_dir |-> output_dir,
     request_timeout |-> config.timeout_seconds,
     pc |-> "load_audio", timeout |-> 0, dir |-> <<>>,
     output_file |-> NoPath,
     n_finished |-> 0, n_error |-> 0, handled |-> FALSE]

\* a thread object the window no longer refers to: rebinding self.thread
\* drops the previous thread, whose run has returned and whose signal has
\* been handled
Collected ==
    [audio_path |-> NoFile, text |-> <<>>, output_dir |-> <<>>,
     request_timeout |-> 0,
     pc |-> "collected", timeout |-> 0, dir |-> <<>>,
     output_file |-> NoPath,
     n_finished |-> 0, n_error |-> 0, handled |-> TRUE]

Rebind(ths, thread) ==
    Append([k \in 1..Len(ths) |->
               IF ths[k].handled /\ ths[k].pc = "done" THEN Collected ELSE ths[k]],
           thread)

Reject(box) ==
    /\ dialogs' = Append(dialogs, box)
    /\ UNCHANGED <<model, config,
                   current_voice_file, available_voices, voice_combo,
                   text_input, enabled, last_output, threads, events,
                   slot_exceptions, alive, fsFiles, outputs, now>>
    /\ UNCHANGED <<loadVars, scanVars>>

generate_speech ==
    IF ~model THEN Reject("model_not_loaded")
    ELSE IF current_voice_file = NoFile THEN Reject("no_voice")
    ELSE IF Strip(text_input) = <<>> THEN Reject("no_text")
    ELSE /\ Len(threads) < MaxJobs
         /\ enabled' = set_ui_enabled(enabled, FALSE)
         /\ IF Creatable(config.output_dir)
            THEN /\ threads' = Rebind(threads,
                        NewThread(current_voice_file, Strip(text_input),
                                  config.output_dir))
                 /\ UNCHANGED <<slot_exceptions, alive>>
            ELSE /\ SlotRaises("generate_speech")
                 /\ UNCHANGED threads
         /\ UNCHANGED <<model, config,
                        current_voice_file, available_voices, voice_combo,
                        text_input, last_output, events, dialogs, fsFiles,
                        outputs, now>>
         /\ UNCHANGED <<loadVars, scanVars>>

\* variant: generate_speech triggered whatever the state of generate_btn
ClickGenerate_unguarded ==
    /\ UserIdle
    /\ generate_speech

ClickGenerate ==
    /\ UserIdle
    /\ IF enabled.generate_btn
       THEN generate_speech
       ELSE UNCHANGED <<model, config,
                           current_voice_file, available_voices, voice_combo,
                           text_input, enabled, last_output, threads, events,
                           dialogs, slot_exceptions, alive, fsFiles, outputs,
                           now, loadVars, scanVars>>

(***************************************************************************)
(* GenerationThread.run.  Every statement sits in one try block whose      *)
(* except clause emits error(str(e)); the signals are queued to the        *)
(* interactive context.                                                    *)
(***************************************************************************)
ThreadVarsUnchanged ==
    UNCHANGED <<model, config,
                current_voice_file, available_voices, voice_combo, text_input,
                enabled, last_output, dialogs, slot_exceptions, alive, fsFiles, now,
                loadVars, scanVars>>

Running(j) ==
    j \in 1..Len(threads) /\ threads[j].pc \notin {"done", "collected"}

\* variant: every statement in a try block of its own, so that run reports
\* the failure and carries on to the emit
run_except_continue(j, msg) ==
    /\ threads' = [threads EXCEPT ![j].pc = "emit", ![j].n_error = @ + 1]
    /\ events' = Append(events, [job |-> j, signal |-> "error", msg |-> msg,
                                 file |-> NoPath])

\* variant: the exception swallowed, no signal emitted
run_except_silent(j, msg) ==
    /\ threads' = [threads EXCEPT ![j].pc = "done"]
    /\ UNCHANGED events

\* except Exception as e: self.error.emit(str(e))
run_except(j, msg) ==
    /\ threads' = [threads EXCEPT ![j].pc = "done", ![j].n_error = @ + 1]
    /\ events' = Append(events, [job |-> j, signal |-> "error", msg |-> msg,
                                 file |-> NoPath])

\* wav = MediaHandler.load_audio(audio_path, 24000, config["timeout_seconds"])
run_load_audio(j) ==
    /\ alive /\ Running(j) /\ threads[j].pc = "load_audio"
    /\ \/ /\ threads[j].audio_path \in fsFiles
          /\ threads' = [threads EXCEPT ![j].pc = "inference",
                                        ![j].timeout = config.timeout_seconds]
          /\ UNCHANGED events
       \/ run_except(j, "decode")
    /\ UNCHANGED outputs
    /\ ThreadVarsUnchanged

\* speaker = self.model.make_speaker_embedding(wav, 24000)
\* cond_dict = make_cond_dict(...); codes = self.model.generate(...)
\* wavs = self.model.autoencoder.decode(codes).cpu()
\* (calls into the inference library, which read no state of the program)
run_inference(j) ==
    /\ alive /\ Running(j) /\ threads[j].pc = "inference"
    /\ \/ /\ threads' = [threads EXCEPT ![j].pc = "mkdir"]
          /\ UNCHANGED events
       \/ \E failed \in {"speaker_embedding", "generate", "code_decode"} :
              run_except(j, failed)
    /\ UNCHANGED outputs
    /\ ThreadVarsUnchanged

\* output_dir = Path(self.config["output_dir"]); output_dir.mkdir(...)
run_mkdir(j) ==
    /\ alive /\ Running(j) /\ threads[j].pc = "mkdir"
    /\ IF Creatable(config.output_dir)
       THEN /\ threads' = [threads EXCEPT ![j].pc = "save",
                                          ![j].dir = config.output_dir]
            /\ UNCHANGED events
       ELSE run_except(j, "mkdir")
    /\ UNCHANGED outputs
    /\ ThreadVarsUnchanged

\* timestamp = now().strftime(...); output_file = ...; torchaudio.save(...)
run_save(j) ==
    /\ alive /\ Running(j) /\ threads[j].pc = "save"
    /\ \/ LET output_file == OutputFile(threads[j].dir, now)
          IN  /\ threads' = [threads EXCEPT ![j].pc = "emit",
                                            ![j].output_file = output_file]
              /\ outputs' = outputs \cup
                    {[file |-> output_file, job |-> j, time |-> now]}
              /\ UNCHANGED events
       \/ /\ run_except(j, "save")
          /\ UNCHANGED outputs
    /\ ThreadVarsUnchanged

\* variant: a statement after the emit raises inside the try block
run_emit_finished_then_error(j) ==
    /\ alive /\ Running(j) /\ threads[j].pc = "emit"
    /\ threads' = [threads EXCEPT ![j].pc = "done", ![j].n_finished = @ + 1,
                                  ![j].n_error = @ + 1]
    /\ events' = events \o
          <<[job |-> j, signal |-> "finished", msg |-> "",
             file |-> threads[j].output_file],
            [job |-> j, signal |-> "error", msg |-> "emit", file |-> NoPath]>>
    /\ UNCHANGED outputs
    /\ ThreadVarsUnchanged

\* self.finished.emit(str(output_file.absolute()))
run_emit_finished(j) ==
    /\ alive /\ Running(j) /\ threads[j].pc = "emit"
    /\ threads' = [threads EXCEPT ![j].pc = "done", ![j].n_finished = @ + 1]
    /\ events' = Append(events, [job |-> j, signal |-> "finished", msg |-> "",
                                 file |-> threads[j].output_file])
    /\ UNCHANGED outputs
    /\ ThreadVarsUnchanged

ThreadStep(j) ==
    \/ run_load_audio(j)
    \/ run_inference(j)
    \/ run_mkdir(j)
    \/ run_save(j)
    \/ run_emit_finished(j)

(***************************************************************************)
(* The slots connected to the thread's signals, run by the event loop of   *)
(* the interactive context (also by the nested loop of an open box).       *)
(***************************************************************************)
SlotVarsUnchanged ==
    UNCHANGED <<model, config,
                current_voice_file, available_voices, voice_combo, text_input,
                fsFiles, outputs, now, loadVars, scanVars>>

generation_complete(j, output_file) ==
    /\ enabled' = set_ui_enabled(enabled, TRUE)
    /\ last_output' = output_file
    /\ threads' = [threads EXCEPT ![j].handled = TRUE]
    /\ IF RelativeToRaises(output_file.dir, Home)
       THEN /\ SlotRaises("generation_complete")
            /\ UNCHANGED dialogs
       ELSE /\ dialogs' = Append(dialogs, "success")
            /\ UNCHANGED <<slot_exceptions, alive>>

\* variant: the widgets not switched back on
generation_error_keeps_busy(j, error_msg) ==
    /\ threads' = [threads EXCEPT ![j].handled = TRUE]
    /\ dialogs' = Append(dialogs, "failed")
    /\ UNCHANGED <<enabled, last_output, slot_exceptions, alive>>

generation_error(j, error_msg) ==
    /\ enabled' = set_ui_enabled(enabled, TRUE)
    /\ threads' = [threads EXCEPT ![j].handled = TRUE]
    /\ dialogs' = Append(dialogs, "failed")
    /\ UNCHANGED <<last_output, slot_exceptions, alive>>

Deliver ==
    /\ alive
    /\ events # <<>>
    /\ events' = Tail(events)
    /\ LET e == Head(events)
       IN  IF e.signal = "finished"
           THEN generation_complete(e.job, e.file)
           ELSE generation_error(e.job, e.msg)
    /\ SlotVarsUnchanged

(***************************************************************************)
(* The specification.                                                      *)
(***************************************************************************)
Next ==
    \/ \E t \in Texts : EditText(t)
    \/ \E p \in PresetDirs, d \in OutputDirs : save_folder_settings(p, d)
    \/ \E n \in DOMAIN available_voices : SelectVoice(n)
    \/ \E f \in AllFiles : select_voice_file(f)
    \/ DismissDialog
    \/ \E f \in AllFiles : RemoveFile(f)
    \/ Tick
    \/ ClickGenerate
    \/ \E j \in 1..MaxJobs : ThreadStep(j)
    \/ Deliver

Spec == Init /\ [][Next]_vars

\* the operating system schedules a started thread, its external calls return,
\* and the event loop of the interactive context dispatches queued signals
LiveSpec ==
    /\ Spec
    /\ WF_vars(\E j \in 1..MaxJobs : ThreadStep(j))
    /\ WF_vars(Deliver)

(***************************************************************************)
(* MediaHandler.load_audio, statement by statement.  la_src says what the  *)
(* file is and how each external call on it ends: torchaudio.load of the   *)
(* file, resample, NamedTemporaryFile, the ffmpeg process under            *)
(* subprocess.run(timeout=..., check=True), torchaudio.load of the         *)
(* transcoded file.                                                        *)
(***************************************************************************)
SampleRate == 24000

Rates == {SampleRate, 44100}

Sources ==
    [primary : {"ok", "fail"}, rate : Rates, channels : {1, 2},
     resample : {"ok", "fail"}, tmpfile : {"ok", "fail"},
     ffmpeg : {"ok", "nonzero", "timeout", "missing"},
     reload : {"ok", "fail"}]

\* names NamedTemporaryFile can draw, and the one another process left behind
TmpNames == {"tmp1.wav", "tmp2.wav"}
Leftover == {"tmp1.wav"}

\* the exceptions that can leave the call; stderr is the captured output of
\* the ffmpeg process, which subprocess attaches to its two exceptions
Diagnostics == <<"ffmpeg: Invalid data found when processing input">>
RuntimeError == [type |-> "RuntimeError", stderr |-> <<>>]
OSError == [type |-> "OSError", stderr |-> <<>>]
FileNotFoundError == [type |-> "FileNotFoundError", stderr |-> <<>>]
CalledProcessError == [type |-> "CalledProcessError", stderr |-> Diagnostics]
TimeoutExpired == [type |-> "TimeoutExpired", stderr |-> Diagnostics]

\* str(e), as the __str__ of each exception class builds it
Str(e) ==
    CASE e.type = "TimeoutExpired" ->
             <<"Command", "ffmpeg", "timed out after", "timeout", "seconds">>
      [] e.type = "CalledProcessError" ->
             <<"Command", "ffmpeg", "returned non-zero exit status", "1">>
      [] e.type = "FileNotFoundError" ->
             <<"No such file or directory", "ffmpeg">>
      [] e.type = "OSError" -> <<"No space left on device">>
      [] e.type = "RuntimeError" -> <<"Failed to decode audio">>
      [] OTHER -> <<>>

\* variant: the transcoder run without "-ac 1"
FfmpegOutputAllChannels(src) == [channels |-> src.channels, rate |-> SampleRate]

\* what "-ac 1 -ar <sample_rate> -vn -f wav" makes of the source
FfmpegOutput(src) == [channels |-> 1, rate |-> SampleRate]

la_call(name, ok) == la_trace' = Append(la_trace, [call |-> name, ok |-> ok])

\* variant: the temporary file made with delete=False and unlinked on the
\* success path only
la_raise_leak(e) ==
    /\ la_pc' = "raised"
    /\ la_exc' = e
    /\ la_tmpfile' = ""
    /\ UNCHANGED la_tmp_dir

\* an exception leaves load_audio; on its way out of the with block
\* tmpfile.__exit__ closes the file, which deletes it
la_raise(e) ==
    /\ la_pc' = "raised"
    /\ la_exc' = e
    /\ la_tmpfile' = ""
    /\ la_tmp_dir' = la_tmp_dir \ {la_tmpfile}

\* wav, sr = torchaudio.load(file_path)
la_load ==
    /\ la_pc = "load"
    /\ la_call("torchaudio.load", la_src.primary = "ok")
    /\ IF la_src.primary = "ok"
       THEN /\ la_wav' = [channels |-> la_src.channels, rate |-> la_src.rate]
            /\ la_pc' = "resample"
       ELSE /\ la_pc' = "except"
            /\ UNCHANGED la_wav
    /\ UNCHANGED <<la_src, la_return, la_exc, la_tmpfile, la_tmp_dir>>
    /\ UNCHANGED <<guiVars, scanVars>>

\* if sr != sample_rate: wav = resample(wav, sr, sample_rate); return wav
la_resample ==
    /\ la_pc = "resample"
    /\ IF la_wav.rate = SampleRate
       THEN /\ la_return' = la_wav
            /\ la_pc' = "returned"
            /\ UNCHANGED <<la_wav, la_trace>>
       ELSE /\ la_call("resample", la_src.resample = "ok")
            /\ IF la_src.resample = "ok"
               THEN /\ la_wav' = [la_wav EXCEPT !.rate = SampleRate]
                    /\ la_return' = la_wav'
                    /\ la_pc' = "returned"
               ELSE /\ la_pc' = "except"
                    /\ UNCHANGED <<la_wav, la_return>>
    /\ UNCHANGED <<la_src, la_exc, la_tmpfile, la_tmp_dir>>
    /\ UNCHANGED <<guiVars, scanVars>>

\* except Exception: print(...); with NamedTemporaryFile(suffix=".wav") as
\* tmpfile: a file of a name not in use is created
la_except ==
    /\ la_pc = "except"
    /\ IF la_src.tmpfile = "ok"
       THEN /\ \E name \in TmpNames \ la_tmp_dir :
                  /\ la_tmpfile' = name
                  /\ la_tmp_dir' = la_tmp_dir \cup {name}
            /\ la_pc' = "ffmpeg"
            /\ UNCHANGED la_exc
       ELSE la_raise(OSError)
    /\ UNCHANGED <<la_src, la_wav, la_return, la_trace>>
    /\ UNCHANGED <<guiVars, scanVars>>

\* variant: the transcoder started again when it fails
la_ffmpeg_retry ==
    /\ la_pc = "ffmpeg"
    /\ Len(la_trace) < 6
    /\ la_call("ffmpeg", la_src.ffmpeg = "ok")
    /\ la_pc' = IF la_src.ffmpeg = "ok" THEN "reload" ELSE "ffmpeg"
    /\ UNCHANGED <<la_exc, la_tmpfile, la_tmp_dir>>
    /\ UNCHANGED <<la_src, la_wav, la_return>>
    /\ UNCHANGED <<guiVars, scanVars>>

\* subprocess.run(cmd, timeout=timeout, check=True, stdout=PIPE, stderr=PIPE)
la_ffmpeg ==
    /\ la_pc = "ffmpeg"
    /\ la_call("ffmpeg", la_src.ffmpeg = "ok")
    /\ CASE la_src.ffmpeg = "ok" ->
                /\ la_pc' = "reload"
                /\ UNCHANGED <<la_exc, la_tmpfile, la_tmp_dir>>
         [] la_src.ffmpeg = "nonzero" -> la_raise(CalledProcessError)
         [] la_src.ffmpeg = "timeout" -> la_raise(TimeoutExpired)
         [] OTHER -> la_raise(FileNotFoundError)
    /\ UNCHANGED <<la_src, la_wav, la_return>>
    /\ UNCHANGED <<guiVars, scanVars>>

\* return torchaudio.load(tmpfile.name)[0], which leaves the with block
la_reload ==
    /\ la_pc = "reload"
    /\ la_call("torchaudio.load", la_src.reload = "ok")
    /\ IF la_src.reload = "ok"
       THEN /\ la_return' = FfmpegOutput(la_src)
            /\ la_pc' = "returned"
            /\ la_tmpfile' = ""
            /\ la_tmp_dir' = la_tmp_dir \ {la_tmpfile}
            /\ UNCHANGED la_exc
       ELSE /\ la_raise(RuntimeError)
            /\ UNCHANGED la_return
    /\ UNCHANGED <<la_src, la_wav>>
    /\ UNCHANGED <<guiVars, scanVars>>

\* the window at rest while a single call is followed
GuiIdle ==
    /\ GuiInit
    /\ ~model
    /\ config.output_dir = DefaultOutputDir

LoadInit ==
    /\ GuiIdle
    /\ ScanIdle
    /\ la_pc = "load"
    /\ la_src \in Sources
    /\ la_wav = NoWav
    /\ la_return = NoWav
    /\ la_exc = NoExc
    /\ la_tmpfile = ""
    /\ la_tmp_dir \in SUBSET Leftover
    /\ la_trace = <<>>

LoadNext ==
    \/ la_load
    \/ la_resample
    \/ la_except
    \/ la_ffmpeg
    \/ la_reload

LoadSpec == LoadInit /\ [][LoadNext]_vars

(***************************************************************************)
(* scan_preset_voices, statement by statement, called MaxScans times in a  *)
(* row on a file system nothing else touches.  glob yields the files of a  *)
(* pattern in the order of the file system, which is any order.            *)
(***************************************************************************)
MaxScans == 2

ScanDir == DefaultPresetsDir

AliceMp3 == [dir |-> ScanDir, stem |-> "alice", ext |-> "mp3"]
BobUpperWav == [dir |-> ScanDir, stem |-> "bob", ext |-> "WAV"]
NotesTxt == [dir |-> ScanDir, stem |-> "notes", ext |-> "txt"]
CarolSubWav == [dir |-> ScanDir \o <<"sub">>, stem |-> "carol", ext |-> "wav"]
CustomVoiceWav == [dir |-> ScanDir, stem |-> "Custom Voice", ext |-> "wav"]

ScanFiles ==
    {AliceWav, AliceMp3, BobUpperWav, NotesTxt, CarolSubWav, CustomVoiceWav}

\* voices[file.stem] = str(file.absolute())
AssignVoice(voices, file) ==
    [n \in (DOMAIN voices) \cup {file.stem} |->
        IF n = file.stem THEN file ELSE voices[n]]

ScanUnchanged == UNCHANGED <<guiVars, loadVars>>

\* voices = {"Custom Voice": None}; presets_path.mkdir(parents=True,
\* exist_ok=True); the outer loop takes its first pattern
sc_start ==
    /\ sc_pc = "start"
    /\ sc_voices' = [n \in {"Custom Voice"} |-> NoFile]
    /\ sc_dirs' = sc_dirs \cup {ScanDir}
    /\ sc_ext' = 1
    /\ sc_found' = Glob(sc_fs, ScanDir, Extensions[1])
    /\ sc_pc' = "loop"
    /\ UNCHANGED <<sc_fs, sc_results>>
    /\ ScanUnchanged

\* for file in presets_path.glob(ext): the body, for the file glob yields next
sc_visit ==
    /\ sc_pc = "loop"
    /\ \E file \in sc_found :
           /\ sc_voices' = AssignVoice(sc_voices, file)
           /\ sc_found' = sc_found \ {file}
    /\ UNCHANGED <<sc_pc, sc_fs, sc_dirs, sc_ext, sc_results>>
    /\ ScanUnchanged

\* the glob is exhausted: the outer loop takes its next pattern
sc_next_ext ==
    /\ sc_pc = "loop"
    /\ sc_found = {}
    /\ sc_ext < Len(Extensions)
    /\ sc_ext' = sc_ext + 1
    /\ sc_found' = Glob(sc_fs, ScanDir, Extensions[sc_ext + 1])
    /\ UNCHANGED <<sc_pc, sc_fs, sc_dirs, sc_voices, sc_results>>
    /\ ScanUnchanged

\* return voices; the caller calls again until it has called MaxScans times
sc_return ==
    /\ sc_pc = "loop"
    /\ sc_found = {}
    /\ sc_ext = Len(Extensions)
    /\ sc_results' = Append(sc_results, sc_voices)
    /\ sc_pc' = IF Len(sc_results) + 1 < MaxScans THEN "start" ELSE "done"
    /\ UNCHANGED <<sc_fs, sc_dirs, sc_ext, sc_found, sc_voices>>
    /\ ScanUnchanged

\* any content of the directory; the directory can be missing when empty
ScanInit ==
    /\ GuiIdle
    /\ LoadIdle
    /\ sc_pc = "start"
    /\ sc_fs \in SUBSET ScanFiles
    /\ sc_dirs \in SUBSET {ScanDir}
    /\ sc_fs # {} => ScanDir \in sc_dirs
    /\ sc_ext = 0
    /\ sc_found = {}
    /\ sc_voices = <<>>
    /\ sc_results = <<>>

ScanNext ==
    \/ sc_start
    \/ sc_visit
    \/ sc_next_ext
    \/ sc_return

ScanSpec == ScanInit /\ [][ScanNext]_vars

(***************************************************************************)
(* Properties.                                                             *)
(***************************************************************************)
Started == 1..Len(threads)

\* the jobs started whose finished/error signal has not been handled yet
InFlight == {j \in Started : ~threads[j].handled}

Busy == ~enabled.generate_btn

AllWhitespace(text) == \A i \in 1..Len(text) : text[i] \in Whitespace

OutcomeBoxes == {"success", "failed"}

\* C1: single-flight: in every reachable state at most one generation job is
\* in flight (started and its finished/error signal not yet handled), whatever
\* the user does; so generate_speech never starts a job while one is in flight.
C1_SingleFlight == Cardinality(InFlight) <= 1

\* a second job is in flight, started after the first one's outcome was
\* handled, and the window takes input
C1_Witness ==
    /\ Len(threads) = 2
    /\ InFlight = {2}
    /\ UserIdle

\* C2: a click on generate made while a job is in flight is dropped: it
\* creates no job, changes nothing of the state and queues or shows no
\* notification.
C2_BusyRejects ==
    [][(ClickGenerate /\ InFlight # {}) => UNCHANGED vars]_vars

\* a job is in flight while the window takes input and holds a request that
\* would otherwise pass validation
C2_Witness ==
    /\ InFlight # {}
    /\ UserIdle
    /\ Busy
    /\ model
    /\ current_voice_file # NoFile
    /\ ~AllWhitespace(text_input)

\* C3: a run that has terminated has emitted exactly one of finished and
\* error: never both, never neither, whichever step failed or succeeded.
C3_ExactlyOneOutcome ==
    \A j \in Started :
        threads[j].pc = "done" =>
            threads[j].n_finished + threads[j].n_error = 1

\* one job has succeeded (its output is recorded) and the next one has
\* terminated with error
C3_Witness ==
    /\ Len(threads) = 2
    /\ threads[2].pc = "done"
    /\ threads[2].n_error = 1
    /\ last_output # NoPath

C5_BusyClearedOnOutcome ==
    /\ (\E i \in 1..Len(dialogs) : dialogs[i] \in OutcomeBoxes) => ~Busy
    /\ (/\ threads # <<>>
        /\ threads[Len(threads)].handled
        /\ "generate_speech" \notin slot_exceptions) => ~Busy

\* the failure of a resubmission, accepted after the first job's outcome was
\* observed, is on screen
C5_Witness ==
    /\ Len(threads) = 2
    /\ dialogs = <<"failed">>
    /\ threads[2].handled
    /\ ~Busy

\* C6: a submit whose voice file does not exist at submission time is
\* rejected synchronously: no job is created and busy stays false.
C6_VoiceNotFoundRejected ==
    [][(/\ ClickGenerate
        /\ ~Busy
        /\ current_voice_file # NoFile
        /\ current_voice_file \notin fsFiles)
       => (threads' = threads /\ ~Busy')]_vars

\* C7: a submit, while not busy, with no voice file or with text that is
\* empty after trimming is rejected with a warning box: no job is created
\* and nothing else of the state changes.
C7_InvalidRejected ==
    [][(/\ ClickGenerate
        /\ ~Busy
        /\ (current_voice_file = NoFile \/ AllWhitespace(text_input)))
       => (/\ dialogs' \in {Append(dialogs, box) :
                               box \in {"model_not_loaded", "no_voice", "no_text"}}
           /\ UNCHANGED <<model, config, current_voice_file, available_voices,
                          voice_combo, text_input, enabled, last_output,
                          threads, events, slot_exceptions, alive, fsFiles,
                          outputs, now>>)]_vars

\* a text of whitespace only, with a voice selected, has been rejected
C7_Witness ==
    /\ dialogs = <<"no_text">>
    /\ text_input # <<>>
    /\ current_voice_file # NoFile
    /\ threads = <<>>
    /\ ~Busy

\* C8: the slots that handle a job's outcome, generation_complete and
\* generation_error, never raise, for every outcome and output directory.
C8_OutcomeSlotsNeverRaise ==
    slot_exceptions \cap {"generation_complete", "generation_error"} = {}

\* C9: a job uses the output directory and the timeout in force when
\* generate_speech accepted it.
C9_RequestImmutable ==
    \A j \in Started :
        /\ threads[j].dir # <<>> => threads[j].dir = threads[j].output_dir
        /\ threads[j].timeout # 0 =>
               threads[j].timeout = threads[j].request_timeout

\* C10 as claimed: two distinct jobs that saved into the same directory
\* saved under distinct paths.
C10_CollisionFree ==
    \A o1, o2 \in outputs :
        (o1.job # o2.job /\ o1.file.dir = o2.file.dir) => o1.file # o2.file

\* C10 as amended: two distinct jobs that saved into the same directory saved
\* under distinct paths exactly when they saved in different seconds.
C10_DistinctAcrossSeconds ==
    \A o1, o2 \in outputs :
        (o1.job # o2.job /\ o1.file.dir = o2.file.dir) =>
            (o1.file # o2.file <=>
                 o1.time \div TicksPerSecond # o2.time \div TicksPerSecond)

\* two jobs have saved into the same directory in different seconds
C10_Witness ==
    \E o1, o2 \in outputs :
        /\ o1.job # o2.job
        /\ o1.file.dir = o2.file.dir
        /\ o1.file # o2.file

(***************************************************************************)
(* Properties of load_audio, checked under LoadSpec.                       *)
(***************************************************************************)
Exited == la_pc \in {"returned", "raised"}

FallbackCalls == {i \in DOMAIN la_trace : la_trace[i].call = "ffmpeg"}

Mentions(msg, words) ==
    \E i \in DOMAIN msg : \E k \in DOMAIN words : msg[i] = words[k]

CorruptionHints == <<"corrupt", "corrupted", "file may be corrupted">>

\* C11: the temporary file of the fallback is scoped: NamedTemporaryFile
\* creates a file under a name that did not exist, and the step on which
\* load_audio returns or raises leaves no file under that name, whichever
\* way the call ends.
C11_TempFileScoped ==
    [][/\ (la_except /\ la_pc' = "ffmpeg") =>
              (la_tmpfile' \notin la_tmp_dir /\ la_tmpfile' \in la_tmp_dir')
       /\ la_pc' \in {"returned", "raised"} =>
              (la_tmpfile' = "" /\ la_tmpfile \notin la_tmp_dir')]_vars

\* the transcoder timed out next to another process's temporary file: the
\* call has raised and only the other file is left
C11_Witness ==
    /\ la_pc = "raised"
    /\ la_exc = TimeoutExpired
    /\ FallbackCalls # {}
    /\ la_tmp_dir = Leftover

\* C15: a call makes the primary attempt first (load, then at most one
\* resample), runs the transcoder at most once and only right after a failed
\* primary call, decodes at most twice, and a failed fallback call is the
\* last call made and ends the call with an exception.
C15_TwoStepChain ==
    LET calls(name) == {i \in DOMAIN la_trace : la_trace[i].call = name}
    IN  /\ Cardinality(FallbackCalls) <= 1
        /\ Cardinality(calls("torchaudio.load")) <= 2
        /\ Cardinality(calls("resample")) <= 1
        /\ la_trace # <<>> => la_trace[1].call = "torchaudio.load"
        /\ \A i \in FallbackCalls :
               /\ i > 1
               /\ la_trace[i - 1].call \in {"torchaudio.load", "resample"}
               /\ ~la_trace[i - 1].ok
        /\ \A i \in DOMAIN la_trace : \A k \in FallbackCalls :
               (i >= k /\ ~la_trace[i].ok) =>
                   (i = Len(la_trace) /\ la_pc = "raised")
        /\ (Exited /\ \A i \in DOMAIN la_trace : la_trace[i].ok) =>
               la_pc = "returned"

\* the resample failed, the transcoder ran once and its output was decoded
C15_Witness ==
    /\ la_pc = "returned"
    /\ Len(la_trace) = 4
    /\ la_trace[2].call = "resample"
    /\ la_trace[3].call = "ffmpeg"

\* C17 as claimed: the message of a transcoder timeout hints at a corrupt
\* file, and the message of a non-zero transcoder exit carries the
\* diagnostic output of the process.
C17_ErrorMessages ==
    la_pc = "raised" =>
        /\ la_exc.type = "TimeoutExpired" => Mentions(Str(la_exc), CorruptionHints)
        /\ la_exc.type = "CalledProcessError" =>
               Mentions(Str(la_exc), la_exc.stderr)

\* C19 as claimed: every value load_audio returns has one channel.
C19_AlwaysMono == la_pc = "returned" => la_return.channels = 1

\* C19 as amended: a value returned by the fallback has one channel and a
\* value returned by the primary path has the channels of the source; both
\* are at the sample rate asked for.
C19_MonoOnFallback ==
    la_pc = "returned" =>
        /\ la_return.rate = SampleRate
        /\ la_return.channels =
               IF FallbackCalls # {} THEN 1 ELSE la_src.channels

\* a stereo source came back from the fallback
C19_Witness ==
    /\ la_pc = "returned"
    /\ FallbackCalls # {}
    /\ la_src.channels = 2
    /\ la_return.channels = 1

(***************************************************************************)
(* Properties of scan_preset_voices, checked under ScanSpec.               *)
(***************************************************************************)
ExtensionSet == {Extensions[i] : i \in DOMAIN Extensions}

\* str.lower() on the suffixes of the files at hand
Lower(ext) == IF ext = "WAV" THEN "wav" ELSE ext

\* the files the catalogue is specified to list: directly inside the
\* directory, suffix in the list whatever its case
Recognized(fs) ==
    {f \in fs : f.dir = ScanDir /\ Lower(f.ext) \in ExtensionSet}

\* the files some pattern of the loop matches
Matched(fs) == {f \in fs : f.dir = ScanDir /\ f.ext \in ExtensionSet}

Returned == {sc_results[i] : i \in DOMAIN sc_results}

\* C12 as claimed: every dict scan_preset_voices returns has the key
\* "Custom Voice" with no path, whatever the directory holds.
C12_SentinelKept ==
    \A r \in Returned :
        "Custom Voice" \in DOMAIN r /\ r["Custom Voice"] = NoFile

\* C13 as claimed: the dict returned has one entry per recognized file of the
\* directory plus the sentinel.
C13_NPlusOne ==
    \A r \in Returned :
        Cardinality(DOMAIN r) = Cardinality(Recognized(sc_fs)) + 1

\* C13 as amended: the dict returned has one entry per distinct stem of the
\* files the patterns match, plus the key "Custom Voice" when no such file
\* has that stem.
C13_OnePerStem ==
    \A r \in Returned :
        DOMAIN r = {f.stem : f \in Matched(sc_fs)} \cup {"Custom Voice"}

\* two matched files share a stem, next to files no pattern matches: the
\* dict returned has fewer entries than files
C13_Witness ==
    /\ sc_results # <<>>
    /\ {AliceWav, AliceMp3, NotesTxt, CarolSubWav} \subseteq sc_fs
    /\ Cardinality(DOMAIN sc_results[1]) < Cardinality(Matched(sc_fs)) + 1

\* C14: the dicts returned by successive calls on the unchanged directory are
\* equal, whatever order glob yields the files in, and also when the first
\* call created the directory.
C14_Idempotent ==
    \A i, k \in DOMAIN sc_results : sc_results[i] = sc_results[k]

\* the second call has returned, on a directory in which two files share a
\* stem
C14_Witness ==
    /\ Len(sc_results) = MaxScans
    /\ {AliceWav, AliceMp3, CustomVoiceWav} \subseteq sc_fs

\* C18 as claimed: a file is a value of the dict returned exactly when it is
\* directly inside the directory with a suffix of the list, compared without
\* regard to case, and then it is the value of its stem.
C18_IncludedIff ==
    \A r \in Returned : \A f \in ScanFiles :
        /\ f \in Range(r) <=> f \in Recognized(sc_fs)
        /\ f \in Range(r) => r[f.stem] = f

(***************************************************************************)
(* Properties of one run of GenerationThread, checked under Spec.          *)
(***************************************************************************)
\* the statement groups of run in the order of the source: decode the voice;
\* speaker embedding, generation and code decode; ensure the output
\* directory; derive the file name and save; emit finished
StepOrder == <<"load_audio", "inference", "mkdir", "save", "emit", "done">>

Saved(j) == {o \in outputs : o.job = j}

\* C16: a thread moves from a step only to the next step of the source order,
\* or, from a step before the emit, straight to the end with one error
\* signal, nothing saved by that step and nothing saved by the job at all;
\* finished is emitted only from the emit step, when the file it names has
\* been saved by the job; no step runs after an error signal.
C16_FinishedOnlyAfterAllSteps ==
    [][\A j \in 1..Len(threads) :
          LET t == threads[j]
              u == threads'[j]
          IN  /\ u.n_finished > t.n_finished =>
                     /\ t.pc = "emit"
                     /\ \E o \in Saved(j) : o.file = t.output_file
              /\ (u.pc # t.pc /\ u.pc # "collected") =>
                     \/ /\ \E i \in 1..5 :
                               t.pc = StepOrder[i] /\ u.pc = StepOrder[i + 1]
                        /\ u.n_error = t.n_error
                     \/ /\ t.pc \in {"load_audio", "inference", "mkdir", "save"}
                        /\ u.pc = "done"
                        /\ u.n_error = t.n_error + 1
                        /\ u.n_finished = t.n_finished
                        /\ outputs' = outputs
                        /\ Saved(j) = {}
              /\ u.n_error > t.n_error => u.pc = "done"]_vars

\* a first job has saved its output and a second one has failed at the save,
\* after its decode, inference and mkdir steps, leaving no output
C16_Witness ==
    /\ Len(threads) = 2
    /\ Saved(1) # {}
    /\ threads[2].pc = "done"
    /\ threads[2].n_error = 1
    /\ threads[2].n_finished = 0
    /\ threads[2].dir # <<>>
    /\ Saved(2) = {}

\* C20 as claimed: the step in which select_voice_file handles a file the
\* user chose leaves current_voice_file at that file, also when the file is
\* not a path of the catalogue and the voice list is refreshed.
C20_ChosenFileKept ==
    [][\A f \in AllFiles :
          select_voice_file(f) => current_voice_file' = f]_vars

====
